---- MODULE Spec2Model ----
(***************************************************************************)
(* Model of src/src/mpsc/mod.rs: an std::sync::mpsc queue whose endpoints  *)
(* are wrapped in IoSource so that the consuming endpoint can be           *)
(* registered with a readiness reactor (Poll/Registry).                    *)
(*                                                                         *)
(* What the file itself defines is modelled from the file:                 *)
(*   channel / sync_channel      lines 12-26                               *)
(*   Receiver::try_recv          lines 34-36                               *)
(*   Receiver register/reregister/deregister   lines 40-60                 *)
(*   send (impl block of line 67, written on SyncSender)  lines 73-75      *)
(*   SyncSender::send, SyncSender::try_send    lines 88-99                 *)
(* The transfer calls behave as the doc comments of the file say           *)
(* ("works just like mpsc::SyncSender::send", "just like                   *)
(* mpsc::Receiver::try_recv"): the std queue, with the item handed over.   *)
(*                                                                         *)
(* IoSource (crate::io_source) and the reactor are not part of the file;   *)
(* they are modelled from the design document (sections 4.1 and 6): a      *)
(* wrapper pairs one inner resource with one optional token, do_io runs    *)
(* the closure and, when it succeeded, signals the wake primitive of the   *)
(* wrapper's own current token, discarding the outcome of the wake.        *)
(***************************************************************************)
EXTENDS Integers, Sequences, FiniteSets

\* ---------------------------------------------------------------- bounds
NumProducers == 2
ItemsPerProducer == 2
MaxBound == 2
NumTokens == 2

Producers == 1..NumProducers
Tokens == 1..NumTokens
NoToken == 0
Interests == {"readable", "writable"}
Wrappers == {"rx", "tx"}
NoItem == <<0, 0>>
Items == Producers \X (1..ItemsPerProducer)

VARIABLES
  kind,      \* "channel" (line 12) or "sync_channel" (line 22)
  bound,     \* capacity given to sync_channel
  queue,     \* items buffered in the std queue, oldest first
  txAlive,   \* the producing endpoint has not been dropped
  rxAlive,   \* the consuming endpoint has not been dropped
  token,     \* token stored in each endpoint's wrapper, NoToken when absent
  registry,  \* reactor's interest table: set of [token, interest]
  ready,     \* tokens signalled since the last wait call
  pc,        \* per producer thread: "idle", "blocked" (inside inner.send), "wake" (inside do_io, transfer done)
  op,        \* per producer thread: the function it is inside, "none" when idle
  next,      \* per producer thread: index of the item it sends next
  rpc,       \* consumer thread: "idle" or "wake" (inside do_io, item taken)
  rio,       \* item the closure of try_recv produced, while rpc = "wake"
  last,      \* the call that returned most recently, and what it returned
  \* ---- history, for stating the properties
  sentOk,    \* items the queue accepted, in the order it accepted them
  received,  \* items try_recv took out of the queue, in order
  everSent,  \* some send or try_send has been called
  regHist,   \* how the consumer came to its registration: "none" (never registered),
             \* "released" (deregistered), "first"/"again" (registered readable before
             \* any send call and continuously since, by a first register / by a
             \* register that followed a deregister; "moved" when a reregister
             \* replaced that registration before any send call), "off"
             \* (registered otherwise)
  owed       \* an accepted item has not yet been followed by a signal of the consumer's token

vars == <<kind, bound, queue, txAlive, rxAlive, token, registry, ready,
          pc, op, next, rpc, rio, last,
          sentOk, received, everSent, regHist, owed>>

chanVars == <<kind, bound>>
regVars == <<token, registry>>
prodVars == <<pc, op, next>>
consVars == <<rpc, rio>>
hist == <<sentOk, received, everSent, regHist, owed>>

\* ------------------------------------------------------------- helpers
Range(s) == {s[i] : i \in 1..Len(s)}
Item(p) == <<p, next[p]>>
\* A returned call: the function, the calling producer thread (0 for the
\* consumer thread), the item it was given, the result's tag and the item the
\* result carries.
Ret(call, who, arg, tag, item) ==
  [call |-> call, who |-> who, arg |-> arg, tok |-> NoToken, tag |-> tag,
   item |-> item, woke |-> FALSE]

\* A returned lifecycle call of the consumer thread: the function, the token
\* it was given and the result's tag.
RetL(call, tok, tag) ==
  [call |-> call, who |-> 0, arg |-> NoItem, tok |-> tok, tag |-> tag,
   item |-> NoItem, woke |-> FALSE]

\* The returned call r went through do_io's wake attempt before returning.
Woken(r) == [r EXCEPT !.woke = TRUE]

\* The consumer has been registered as readable since before any send call.
regSince == regHist \in {"first", "again", "moved"}

\* ------------------------------------------------ channel construction
\* channel(): an unbounded queue; both endpoints built with no token.
channel ==
  /\ kind = "channel"
  /\ bound = 0

\* sync_channel(bound): a bounded queue; both endpoints built with no token.
sync_channel ==
  /\ kind = "sync_channel"
  /\ bound \in 0..MaxBound

Init ==
  /\ (channel \/ sync_channel)
  /\ queue = <<>>
  /\ txAlive = TRUE
  /\ rxAlive = TRUE
  /\ token = [w \in Wrappers |-> NoToken]
  /\ registry = {}
  /\ ready = {}
  /\ pc = [p \in Producers |-> "idle"]
  /\ op = [p \in Producers |-> "none"]
  /\ next = [p \in Producers |-> 1]
  /\ rpc = "idle"
  /\ rio = NoItem
  /\ last = Ret("none", 0, NoItem, "none", NoItem)
  /\ sentOk = <<>>
  /\ received = <<>>
  /\ everSent = FALSE
  /\ regHist = "none"
  /\ owed = FALSE

\* ------------------------------------------------- the reactor (Registry)
\* The interest-table entries recorded for token t.
Entries(t) == {e \in registry : e.token = t}

\* A wake attempt on wrapper w reaches the reactor: the wrapper holds a token,
\* the attempt itself did not fail, and the token is registered as readable.
Signalled(w, ok) ==
  /\ token[w] # NoToken
  /\ ok
  /\ \E e \in Entries(token[w]) : e.interest = "readable"

\* The wait call returns: it reports every token signalled since the last
\* call (the set ready of the state it is taken in) and starts afresh.
Poll_poll ==
  /\ ready # {}
  /\ ready' = {}
  /\ UNCHANGED <<chanVars, queue, txAlive, rxAlive, regVars, prodVars,
                 consVars, last, hist>>

\* ------------------------------------------------- the wrapper (IoSource)
\* register: AlreadyRegistered when a token is attached, else the reactor
\* takes the entry and the wrapper stores the token.
IoSource_register(w, tok, int) ==
  IF token[w] # NoToken
  THEN /\ last' = RetL("register", tok, "AlreadyRegistered")
       /\ UNCHANGED <<token, registry, ready>>
  ELSE /\ last' = RetL("register", tok, "Ok")
       /\ token' = [token EXCEPT ![w] = tok]
       /\ registry' = registry \cup {[token |-> tok, interest |-> int]}
       /\ UNCHANGED ready

\* reregister: NotRegistered when no token is attached, else the entry and the
\* stored token are replaced; readiness pending for the entry follows it.
IoSource_reregister(w, tok, int) ==
  IF token[w] = NoToken
  THEN /\ last' = RetL("reregister", tok, "NotRegistered")
       /\ UNCHANGED <<token, registry, ready>>
  ELSE /\ last' = RetL("reregister", tok, "Ok")
       /\ token' = [token EXCEPT ![w] = tok]
       /\ registry' = (registry \ Entries(token[w]))
                        \cup {[token |-> tok, interest |-> int]}
       /\ ready' = IF token[w] \in ready
                   THEN (ready \ {token[w]}) \cup {tok}
                   ELSE ready

\* deregister: NotRegistered when no token is attached, else the entry is
\* removed from the reactor and the stored token is cleared.
IoSource_deregister(w) ==
  IF token[w] = NoToken
  THEN /\ last' = RetL("deregister", NoToken, "NotRegistered")
       /\ UNCHANGED <<token, registry, ready>>
  ELSE /\ last' = RetL("deregister", NoToken, "Ok")
       /\ token' = [token EXCEPT ![w] = NoToken]
       /\ registry' = registry \ Entries(token[w])
       /\ ready' = ready \ {token[w]}

\* do_io, after the closure succeeded: signal the wake primitive of the
\* wrapper's own current token (nothing to signal when it holds none).
IoSource_wake(w, ok) ==
  /\ ready' = IF Signalled(w, ok) THEN ready \cup {token[w]} ELSE ready
  /\ owed' = (owed /\ ~(Signalled(w, ok) /\ token[w] = token["rx"]))

\* do_io's return value: the closure's result, whatever the wake did.
IoSource_do_io(opRes, wakeOk) == opRes

\* ------------------------------------------------------ the std queue
\* A faulty variant of the queue's send: it takes no notice of the consuming
\* endpoint being dropped.
mpsc_send_ignoresDrop ==
  IF Len(queue) < bound THEN "Ok" ELSE "Block"

\* mpsc::SyncSender::send(t): the peer is gone, there is room, or the caller
\* must wait for room.
mpsc_send ==
  IF ~rxAlive THEN "Disconnected"
  ELSE IF Len(queue) < bound THEN "Ok"
  ELSE "Block"

\* mpsc::SyncSender::try_send(t): as send, but Full instead of waiting.
mpsc_try_send ==
  IF ~rxAlive THEN "Disconnected"
  ELSE IF Len(queue) < bound THEN "Ok"
  ELSE "Full"

\* Producer threads waiting inside send on a rendezvous queue (capacity 0),
\* whose item a receive can take directly.
Waiting == {p \in Producers : pc[p] = "blocked" /\ bound = 0}

\* mpsc::Receiver::try_recv(): what a receive finds.
mpsc_try_recv ==
  IF queue # <<>> \/ Waiting # {} THEN "Ok"
  ELSE IF ~txAlive THEN "Disconnected"
  ELSE "Empty"

\* ------------------------------------- do_io on a producing endpoint
\* The closure of function f runs against the inner sender with the caller's
\* item; out is what the queue answers. A failure is returned at once.
ProducerTransfer(p, f, out) ==
  CASE out = "Ok" ->
         /\ queue' = Append(queue, Item(p))
         /\ sentOk' = Append(sentOk, Item(p))
         /\ owed' = TRUE
         /\ pc' = [pc EXCEPT ![p] = "wake"]
         /\ op' = [op EXCEPT ![p] = f]
         /\ UNCHANGED <<last>>
    [] out = "Block" ->
         /\ pc' = [pc EXCEPT ![p] = "blocked"]
         /\ op' = [op EXCEPT ![p] = f]
         /\ UNCHANGED <<queue, sentOk, owed, last>>
    [] OTHER ->
         /\ pc' = [pc EXCEPT ![p] = "idle"]
         /\ op' = [op EXCEPT ![p] = "none"]
         /\ last' = Ret(f, p, Item(p), out, Item(p))
         /\ UNCHANGED <<queue, sentOk, owed>>

\* A producer thread enters function f and the closure runs.
ProducerCall(p, f, out) ==
  /\ kind = "sync_channel"
  /\ txAlive
  /\ pc[p] = "idle"
  /\ next[p] <= ItemsPerProducer
  /\ everSent' = TRUE
  /\ ProducerTransfer(p, f, out)
  /\ UNCHANGED <<chanVars, txAlive, rxAlive, regVars, ready, next,
                 consVars, received, regHist>>

\* A thread waiting for room inside f is released: room appeared or the
\* consuming endpoint was dropped.
ProducerResume(p, f) ==
  /\ pc[p] = "blocked"
  /\ op[p] = f
  /\ mpsc_send # "Block"
  /\ ProducerTransfer(p, f, mpsc_send)
  /\ UNCHANGED <<chanVars, txAlive, rxAlive, regVars, ready, next,
                 consVars, received, everSent, regHist>>

\* A faulty variant of the return step: do_io on a producing endpoint that
\* signals through the consuming endpoint's wrapper, as if the two endpoints
\* shared one registration.
ProducerReturn_sharedWrapper(p, f) ==
  /\ pc[p] = "wake"
  /\ op[p] = f
  /\ \E ok \in BOOLEAN :
       /\ IoSource_wake("rx", ok)
       /\ last' = Woken(Ret(f, p, Item(p), IoSource_do_io("Ok", ok), NoItem))
  /\ pc' = [pc EXCEPT ![p] = "idle"]
  /\ op' = [op EXCEPT ![p] = "none"]
  /\ next' = [next EXCEPT ![p] = @ + 1]
  /\ UNCHANGED <<chanVars, queue, txAlive, rxAlive, regVars,
                 consVars, sentOk, received, everSent, regHist>>

\* The closure succeeded: do_io attempts the wake on the producing
\* endpoint's own wrapper and f returns what do_io returns.
ProducerReturn(p, f) ==
  /\ pc[p] = "wake"
  /\ op[p] = f
  /\ \E ok \in BOOLEAN :
       /\ IoSource_wake("tx", ok)
       /\ last' = Woken(Ret(f, p, Item(p), IoSource_do_io("Ok", ok), NoItem))
  /\ pc' = [pc EXCEPT ![p] = "idle"]
  /\ op' = [op EXCEPT ![p] = "none"]
  /\ next' = [next EXCEPT ![p] = @ + 1]
  /\ UNCHANGED <<chanVars, queue, txAlive, rxAlive, regVars,
                 consVars, sentOk, received, everSent, regHist>>

\* ---------------------------------- faulty variants of the producers
\* try_send that reports an error when its wake reached no registration,
\* instead of discarding the outcome of the wake.
SyncSender_try_send_wakeErr(p) ==
  \/ ProducerCall(p, "SyncSender_try_send", mpsc_try_send)
  \/ /\ pc[p] = "wake"
     /\ op[p] = "SyncSender_try_send"
     /\ \E ok \in BOOLEAN :
          /\ IoSource_wake("tx", ok)
          /\ last' = Woken(Ret("SyncSender_try_send", p, Item(p),
                               IF Signalled("tx", ok) THEN "Ok"
                               ELSE "WakeError",
                               NoItem))
     /\ pc' = [pc EXCEPT ![p] = "idle"]
     /\ op' = [op EXCEPT ![p] = "none"]
     /\ next' = [next EXCEPT ![p] = @ + 1]
     /\ UNCHANGED <<chanVars, queue, txAlive, rxAlive, regVars,
                    consVars, sentOk, received, everSent, regHist>>

\* try_send over a queue that takes every item while the peer lives, as
\* the unbounded mpsc::Sender would.
SyncSender_try_send_unbounded(p) ==
  \/ ProducerCall(p, "SyncSender_try_send",
                  IF ~rxAlive THEN "Disconnected" ELSE "Ok")
  \/ ProducerReturn(p, "SyncSender_try_send")

\* send whose error does not carry the item back to the caller.
SyncSender_send_dropsItem(p) ==
  \/ /\ pc[p] = "idle"
     /\ mpsc_send = "Disconnected"
     /\ kind = "sync_channel"
     /\ txAlive
     /\ next[p] <= ItemsPerProducer
     /\ everSent' = TRUE
     /\ last' = Ret("SyncSender_send", p, Item(p), "Disconnected", NoItem)
     /\ UNCHANGED <<chanVars, queue, txAlive, rxAlive, regVars, ready,
                    prodVars, consVars, sentOk, received, regHist, owed>>
  \/ /\ mpsc_send # "Disconnected"
     /\ ProducerCall(p, "SyncSender_send", mpsc_send)
  \/ ProducerResume(p, "SyncSender_send")
  \/ ProducerReturn(p, "SyncSender_send")

\* What a producer's call that returns at once leaves alone.
ProducerFrame ==
  UNCHANGED <<chanVars, queue, txAlive, rxAlive, regVars, prodVars,
              consVars, sentOk, received, regHist>>

\* A producer thread may enter a call.
ProducerMayCall(p) ==
  /\ kind = "sync_channel"
  /\ txAlive
  /\ pc[p] = "idle"
  /\ next[p] <= ItemsPerProducer

\* try_send that makes the wake attempt also when the queue answered Full.
SyncSender_try_send_wakesOnFull(p) ==
  \/ /\ ProducerMayCall(p)
     /\ mpsc_try_send = "Full"
     /\ everSent' = TRUE
     /\ \E ok \in BOOLEAN : IoSource_wake("tx", ok)
     /\ last' = Woken(Ret("SyncSender_try_send", p, Item(p), "Full", Item(p)))
     /\ ProducerFrame
  \/ /\ mpsc_try_send # "Full"
     /\ ProducerCall(p, "SyncSender_try_send", mpsc_try_send)
  \/ ProducerReturn(p, "SyncSender_try_send")

\* send that, finding the queue full, makes the wake attempt and returns Ok
\* before its item is in the queue.
SyncSender_send_wakesFirst(p) ==
  \/ /\ ProducerMayCall(p)
     /\ mpsc_send = "Block"
     /\ everSent' = TRUE
     /\ \E ok \in BOOLEAN : IoSource_wake("tx", ok)
     /\ last' = Woken(Ret("SyncSender_send", p, Item(p), "Ok", NoItem))
     /\ ProducerFrame
  \/ /\ mpsc_send # "Block"
     /\ ProducerCall(p, "SyncSender_send", mpsc_send)
  \/ ProducerResume(p, "SyncSender_send")
  \/ ProducerReturn(p, "SyncSender_send")

\* send that reports an error when the wrapper it signals holds no token.
SyncSender_send_needsToken(p) ==
  \/ ProducerCall(p, "SyncSender_send", mpsc_send)
  \/ ProducerResume(p, "SyncSender_send")
  \/ /\ pc[p] = "wake"
     /\ op[p] = "SyncSender_send"
     /\ \E ok \in BOOLEAN :
          /\ IoSource_wake("tx", ok)
          /\ last' = Woken(Ret("SyncSender_send", p, Item(p),
                               IF token["tx"] = NoToken THEN "NotRegistered"
                               ELSE "Ok",
                               NoItem))
     /\ pc' = [pc EXCEPT ![p] = "idle"]
     /\ op' = [op EXCEPT ![p] = "none"]
     /\ next' = [next EXCEPT ![p] = @ + 1]
     /\ UNCHANGED <<chanVars, queue, txAlive, rxAlive, regVars,
                    consVars, sentOk, received, everSent, regHist>>

\* ------------------------------------------------ producing endpoints
\* send of the impl block at line 67, which the file writes on SyncSender.
send(p) ==
  \/ ProducerCall(p, "send", mpsc_send)
  \/ ProducerResume(p, "send")
  \/ ProducerReturn(p, "send")

\* SyncSender::send
SyncSender_send(p) ==
  \/ ProducerCall(p, "SyncSender_send", mpsc_send)
  \/ ProducerResume(p, "SyncSender_send")
  \/ ProducerReturn(p, "SyncSender_send")

\* SyncSender::try_send
SyncSender_try_send(p) ==
  \/ ProducerCall(p, "SyncSender_try_send", mpsc_try_send)
  \/ ProducerReturn(p, "SyncSender_try_send")

\* The producing endpoint goes out of scope; no thread is inside a call on it.
Sender_drop ==
  /\ kind = "channel"
  /\ txAlive
  /\ txAlive' = FALSE
  /\ UNCHANGED <<chanVars, queue, rxAlive, regVars, ready, prodVars,
                 consVars, last, hist>>

SyncSender_drop ==
  /\ kind = "sync_channel"
  /\ txAlive
  /\ \A p \in Producers : pc[p] = "idle"
  /\ txAlive' = FALSE
  /\ UNCHANGED <<chanVars, queue, rxAlive, regVars, ready, prodVars,
                 consVars, last, hist>>

\* ----------------------------- faulty variants of the consuming endpoint
\* What every variant of the receive closure leaves alone.
RecvFrame ==
  UNCHANGED <<chanVars, txAlive, rxAlive, regVars, ready, next,
              everSent, regHist>>

\* A receive that finds no item, as the queue answers it.
RecvNothing ==
  /\ queue = <<>>
  /\ Waiting = {}
  /\ last' = Ret("try_recv", 0, NoItem, mpsc_try_recv, NoItem)
  /\ UNCHANGED <<rio, rpc, queue, received, pc, op, sentOk, owed>>

\* A receive on a rendezvous queue that takes the item of a waiting sender.
RecvHandOff ==
  /\ queue = <<>>
  /\ \E p \in Waiting :
       /\ rio' = Item(p)
       /\ pc' = [pc EXCEPT ![p] = "wake"]
       /\ sentOk' = Append(sentOk, Item(p))
       /\ received' = Append(received, Item(p))
       /\ owed' = TRUE
       /\ rpc' = "wake"
       /\ UNCHANGED <<last, queue, op>>

\* try_recv that hands out the oldest item without removing it.
Receiver_try_recv_call_peek ==
  /\ rxAlive
  /\ rpc = "idle"
  /\ \/ /\ queue # <<>>
        /\ rio' = Head(queue)
        /\ received' = Append(received, Head(queue))
        /\ rpc' = "wake"
        /\ UNCHANGED <<queue, last, pc, op, sentOk, owed>>
     \/ RecvHandOff
     \/ RecvNothing
  /\ RecvFrame

\* try_recv that takes the newest item instead of the oldest.
Receiver_try_recv_call_lifo ==
  /\ rxAlive
  /\ rpc = "idle"
  /\ \/ /\ queue # <<>>
        /\ rio' = queue[Len(queue)]
        /\ queue' = SubSeq(queue, 1, Len(queue) - 1)
        /\ received' = Append(received, queue[Len(queue)])
        /\ rpc' = "wake"
        /\ UNCHANGED <<last, pc, op, sentOk, owed>>
     \/ RecvHandOff
     \/ RecvNothing
  /\ RecvFrame

\* try_recv that reports every failure of the queue as Empty.
Receiver_try_recv_call_allEmpty ==
  /\ rxAlive
  /\ rpc = "idle"
  /\ \/ /\ queue # <<>>
        /\ rio' = Head(queue)
        /\ queue' = Tail(queue)
        /\ received' = Append(received, Head(queue))
        /\ rpc' = "wake"
        /\ UNCHANGED <<last, pc, op, sentOk, owed>>
     \/ RecvHandOff
     \/ /\ queue = <<>>
        /\ Waiting = {}
        /\ last' = Ret("try_recv", 0, NoItem, "Empty", NoItem)
        /\ UNCHANGED <<rio, rpc, queue, received, pc, op, sentOk, owed>>
  /\ RecvFrame

\* try_recv that makes do_io's wake attempt although the closure found no
\* item.
Receiver_try_recv_call_wakeOnEmpty ==
  /\ rxAlive
  /\ rpc = "idle"
  /\ \/ /\ queue # <<>>
        /\ rio' = Head(queue)
        /\ queue' = Tail(queue)
        /\ received' = Append(received, Head(queue))
        /\ rpc' = "wake"
        /\ UNCHANGED <<last, pc, op, sentOk, owed, ready>>
     \/ /\ RecvHandOff
        /\ UNCHANGED ready
     \/ /\ queue = <<>>
        /\ Waiting = {}
        /\ last' = Woken(Ret("try_recv", 0, NoItem, mpsc_try_recv, NoItem))
        /\ \E ok \in BOOLEAN :
             ready' = IF Signalled("rx", ok) THEN ready \cup {token["rx"]}
                      ELSE ready
        /\ UNCHANGED <<rio, rpc, queue, received, pc, op, sentOk, owed>>
  /\ UNCHANGED <<chanVars, txAlive, rxAlive, regVars, next, everSent, regHist>>

\* What the lifecycle calls of the consuming endpoint leave alone.
LifecycleFrame ==
  UNCHANGED <<chanVars, queue, txAlive, rxAlive, prodVars, consVars,
              sentOk, received, everSent, owed>>

\* register that attaches the new token without looking for an old one.
Receiver_register_overwrite(tok, int) ==
  /\ rxAlive
  /\ rpc = "idle"
  /\ last' = RetL("register", tok, "Ok")
  /\ token' = [token EXCEPT !["rx"] = tok]
  /\ registry' = registry \cup {[token |-> tok, interest |-> int]}
  /\ regHist' = "off"
  /\ UNCHANGED ready
  /\ LifecycleFrame

\* deregister that reports success when there is nothing to remove.
Receiver_deregister_lenient ==
  /\ rxAlive
  /\ rpc = "idle"
  /\ last' = RetL("deregister", NoToken, "Ok")
  /\ token' = [token EXCEPT !["rx"] = NoToken]
  /\ registry' = registry \ Entries(token["rx"])
  /\ ready' = ready \ {token["rx"]}
  /\ regHist' = "released"
  /\ LifecycleFrame

\* ------------------------------------------------- consuming endpoint
\* Receiver::try_recv, the closure: inner.try_recv() against the queue.
\* Empty and Disconnected are returned at once.
Receiver_try_recv_call ==
  /\ rxAlive
  /\ rpc = "idle"
  /\ CASE queue # <<>> ->
            /\ rio' = Head(queue)
            /\ queue' = Tail(queue)
            /\ received' = Append(received, Head(queue))
            /\ rpc' = "wake"
            /\ UNCHANGED <<last, pc, op, sentOk, owed>>
       [] queue = <<>> /\ Waiting # {} ->
            \E p \in Waiting :
              /\ rio' = Item(p)
              /\ pc' = [pc EXCEPT ![p] = "wake"]
              /\ sentOk' = Append(sentOk, Item(p))
              /\ received' = Append(received, Item(p))
              /\ owed' = TRUE
              /\ rpc' = "wake"
              /\ UNCHANGED <<last, queue, op>>
       [] OTHER ->
            /\ last' = Ret("try_recv", 0, NoItem, mpsc_try_recv, NoItem)
            /\ UNCHANGED <<rio, rpc, queue, received, pc, op, sentOk, owed>>
  /\ UNCHANGED <<chanVars, txAlive, rxAlive, regVars, ready, next,
                 everSent, regHist>>

\* Receiver::try_recv, after the closure returned an item: do_io attempts the
\* wake on the consuming endpoint's wrapper and try_recv returns the item.
Receiver_try_recv_return ==
  /\ rpc = "wake"
  /\ \E ok \in BOOLEAN :
       /\ IoSource_wake("rx", ok)
       /\ last' = Woken(Ret("try_recv", 0, NoItem, IoSource_do_io("Ok", ok),
                            rio))
  /\ rio' = NoItem
  /\ rpc' = "idle"
  /\ UNCHANGED <<chanVars, queue, txAlive, rxAlive, regVars, prodVars,
                 sentOk, received, everSent, regHist>>

\* Receiver::try_recv
Receiver_try_recv ==
  \/ Receiver_try_recv_call
  \/ Receiver_try_recv_return

\* Source::register for Receiver: forwarded to the wrapper.
Receiver_register(tok, int) ==
  /\ rxAlive
  /\ rpc = "idle"
  /\ IoSource_register("rx", tok, int)
  /\ regHist' = IF last'.tag # "Ok" THEN regHist
                ELSE IF int # "readable" \/ everSent THEN "off"
                ELSE IF regHist = "released" THEN "again"
                ELSE "first"
  /\ UNCHANGED <<chanVars, queue, txAlive, rxAlive, prodVars, consVars,
                 sentOk, received, everSent, owed>>

\* Source::reregister for Receiver: forwarded to the wrapper.
Receiver_reregister(tok, int) ==
  /\ rxAlive
  /\ rpc = "idle"
  /\ IoSource_reregister("rx", tok, int)
  /\ regHist' = IF last'.tag # "Ok" THEN regHist
                ELSE IF int # "readable" THEN "off"
                ELSE IF regSince /\ ~everSent THEN "moved"
                ELSE regHist
  /\ UNCHANGED <<chanVars, queue, txAlive, rxAlive, prodVars, consVars,
                 sentOk, received, everSent, owed>>

\* Source::deregister for Receiver: forwarded to the wrapper.
Receiver_deregister ==
  /\ rxAlive
  /\ rpc = "idle"
  /\ IoSource_deregister("rx")
  /\ regHist' = IF last'.tag = "Ok" THEN "released" ELSE regHist
  /\ UNCHANGED <<chanVars, queue, txAlive, rxAlive, prodVars, consVars,
                 sentOk, received, everSent, owed>>

\* The consuming endpoint goes out of scope: the queue discards what it
\* still buffers.
Receiver_drop ==
  /\ rxAlive
  /\ rpc = "idle"
  /\ rxAlive' = FALSE
  /\ queue' = <<>>
  /\ UNCHANGED <<chanVars, txAlive, regVars, ready, prodVars, consVars,
                 last, hist>>

\* ------------------------------------------------------- specification
Next ==
  \/ \E p \in Producers : send(p)
  \/ \E p \in Producers : SyncSender_send(p)
  \/ \E p \in Producers : SyncSender_try_send(p)
  \/ Receiver_try_recv
  \/ \E tok \in Tokens, int \in Interests : Receiver_register(tok, int)
  \/ \E tok \in Tokens, int \in Interests : Receiver_reregister(tok, int)
  \/ Receiver_deregister
  \/ Poll_poll
  \/ Sender_drop
  \/ SyncSender_drop
  \/ Receiver_drop

Spec == Init /\ [][Next]_vars

\* A thread that is inside a call and can go on does go on: a producer inside
\* do_io finishes its call, a waiting sender whose wait is over is released.
Complete(p) ==
  \E f \in {"send", "SyncSender_send", "SyncSender_try_send"} :
    ProducerResume(p, f) \/ ProducerReturn(p, f)

\* Scheduling: every thread inside a call is eventually run, and a wait call
\* with readiness pending returns.
FairSpec ==
  /\ Spec
  /\ \A p \in Producers : WF_vars(Complete(p))
  /\ WF_vars(Receiver_try_recv_return)
  /\ WF_vars(Poll_poll)

\* The bounded queue with a consumer that keeps draining: the endpoints of
\* sync_channel, used without a reactor (a waiting send depends on the queue
\* and on the consuming endpoint's life only, not on any registration).
DrainingInit == Init /\ sync_channel

DrainingNext ==
  \/ \E p \in Producers : send(p)
  \/ \E p \in Producers : SyncSender_send(p)
  \/ \E p \in Producers : SyncSender_try_send(p)
  \/ Receiver_try_recv
  \/ SyncSender_drop
  \/ Receiver_drop

\* Scheduling: every thread inside a call is eventually run and the consumer
\* thread, while its endpoint lives, calls try_recv again and again.
DrainingSpec ==
  /\ DrainingInit
  /\ [][DrainingNext]_vars
  /\ \A p \in Producers : WF_vars(Complete(p))
  /\ WF_vars(Receiver_try_recv)

TypeOK ==
  /\ kind \in {"channel", "sync_channel"}
  /\ bound \in 0..MaxBound
  /\ Range(queue) \subseteq Items
  /\ token \in [Wrappers -> Tokens \cup {NoToken}]
  /\ ready \subseteq Tokens
  /\ pc \in [Producers -> {"idle", "blocked", "wake"}]
  /\ rpc \in {"idle", "wake"}

\* ---------------------------------------------------------------- claims

\* C1 (no lost wake): when the consuming endpoint has been registered as
\* readable since before any send call, every item the queue accepted is
\* eventually followed by a signal of the consumer's token in the reactor,
\* which the wait call then reports. Stated leniently: an execution in which
\* the consumer takes items out on its own, or is dropped, is not held
\* against the claim.
C1_NoLostWake ==
  (regSince /\ owed) ~>
    (~owed \/ ~regSince \/ received # <<>> \/ ~rxAlive)

\* ------------------------------------------- observing calls in a step
\* The step returns a send or try_send of producer thread p.
ProducerReturned(p) == last' # last /\ last'.who = p

\* What the queue answered to the call of p that this step returns.
TransferOutcome(p) ==
  IF pc[p] = "wake" THEN "Ok"
  ELSE IF last'.call = "SyncSender_try_send" THEN mpsc_try_send
  ELSE mpsc_send

\* The step returns a call of the named lifecycle function.
LifecycleReturned(call) == last' # last /\ last'.call = call

\* The step runs the closure of try_recv.
TryRecvRuns ==
  /\ rpc = "idle"
  /\ rpc' = "wake" \/ (last' # last /\ last'.call = "try_recv")

\* Position of item x in sequence s (0 when absent).
Pos(s, x) == IF x \in Range(s) THEN CHOOSE i \in 1..Len(s) : s[i] = x ELSE 0

\* C2 (no loss, no duplication): while the consuming endpoint lives, the items
\* received followed by the items still buffered are exactly the items the
\* queue accepted, each once; so a consumer that has drained the queue has
\* received exactly what was sent.
C2_NoLossNoDup ==
  rxAlive =>
    /\ received \o queue = sentOk
    /\ Cardinality(Range(sentOk)) = Len(sentOk)
    /\ (queue = <<>> => Range(received) = Range(sentOk))

\* C2 witness: both producers sent all their items and the consumer drained
\* them until Empty.
C2_Witness ==
  /\ Len(received) = NumProducers * ItemsPerProducer
  /\ last.call = "try_recv"
  /\ last.tag = "Empty"

C4_UndeliveredItemReturn ==
  [][\A p \in Producers :
       ProducerReturned(p) =>
         /\ last'.arg = Item(p)
         /\ IF last'.tag \in {"Disconnected", "Full"}
            THEN /\ last'.item = last'.arg
                 /\ queue' = queue
                 /\ sentOk' = sentOk
                 /\ last'.arg \notin Range(sentOk)
            ELSE /\ last'.tag = "Ok"
                 /\ last'.arg \in Range(sentOk')]_vars

\* C4 witness: a send into a queue whose consuming endpoint was dropped
\* returned Disconnected with its item.
C4_Witness ==
  /\ last.who \in Producers
  /\ last.tag = "Disconnected"
  /\ last.item \in Items
  /\ ~rxAlive

C6_DisconnectReporting ==
  [][TryRecvRuns =>
       /\ queue # <<>> => (rpc' = "wake" /\ rio' = Head(queue))
       /\ (queue = <<>> /\ ~txAlive) =>
            (rpc' = "idle" /\ last'.tag = "Disconnected")
       /\ (rpc' = "idle" /\ last'.tag = "Disconnected") =>
            (queue = <<>> /\ ~txAlive)]_vars

\* C6 witness: the producing endpoint was dropped, the buffered items were
\* received, and try_recv then returned Disconnected.
C6_Witness ==
  /\ ~txAlive
  /\ received # <<>>
  /\ last.call = "try_recv"
  /\ last.tag = "Disconnected"

\* C7 (FIFO per producer): two items of one producer thread are received in
\* the order the queue accepted them.
C7_FifoPerProducer ==
  \A a, b \in Range(received) :
    (a[1] = b[1] /\ Pos(sentOk, a) < Pos(sentOk, b)) =>
      Pos(received, a) < Pos(received, b)

\* C7 witness: both items of producer 1 were received, with an item of
\* producer 2 between them.
C7_Witness ==
  /\ Len(received) >= 3
  /\ received[1] = <<1, 1>>
  /\ received[2] = <<2, 1>>
  /\ received[3] = <<1, 2>>

\* C8 (failing deregister): deregister on a consuming endpoint with no token
\* returns NotRegistered and changes neither the endpoint's token nor the
\* reactor.
C8_DeregisterUnregistered ==
  [][(LifecycleReturned("deregister") /\ token["rx"] = NoToken) =>
       /\ last'.tag = "NotRegistered"
       /\ token' = token
       /\ registry' = registry
       /\ ready' = ready]_vars

\* C8 witness: a deregister succeeded and the next one, with no register in
\* between, returned NotRegistered.
C8_Witness ==
  /\ regHist = "released"
  /\ last.call = "deregister"
  /\ last.tag = "NotRegistered"

C10_RoundTrip ==
  /\ [][(LifecycleReturned("deregister") /\ last'.tag = "Ok") =>
          (token'["rx"] = NoToken /\ registry' = {} /\ ready' = {})]_vars
  /\ [][(LifecycleReturned("register") /\ regHist = "released") =>
          (last'.tag = "Ok" /\ token'["rx"] = last'.tok)]_vars
  /\ []((/\ regHist = "again"
         /\ owed
         /\ rxAlive
         /\ received = <<>>
         /\ rpc = "idle"
         /\ \A p \in Producers : pc[p] = "idle") =>
          token["rx"] \in ready)

\* No thread is inside a call.
Quiescent == rpc = "idle" /\ \A p \in Producers : pc[p] = "idle"

\* C11 (reregister): reregister on a consuming endpoint with no token returns
\* NotRegistered and changes nothing; on a registered endpoint it succeeds and
\* the stored token and the reactor's entry become the ones given; readiness
\* is never pending under another token than the stored one; and an item sent
\* after the reregister is notified under the new token: once the send has
\* returned and no thread is inside a call, the new token has been signalled
\* (leniently: unless the consumer has taken items out on its own or was
\* dropped).
C11_Reregister ==
  /\ [][(LifecycleReturned("reregister") /\ token["rx"] = NoToken) =>
          /\ last'.tag = "NotRegistered"
          /\ token' = token
          /\ registry' = registry
          /\ ready' = ready]_vars
  /\ [][(LifecycleReturned("reregister") /\ token["rx"] # NoToken) =>
          /\ last'.tag = "Ok"
          /\ token'["rx"] = last'.tok
          /\ \A e \in registry' : e.token = last'.tok
          /\ registry' # {}
          /\ ready' \subseteq {last'.tok}]_vars
  /\ [](ready \subseteq {token["rx"]})
  /\ []((/\ regHist = "moved"
         /\ owed
         /\ rxAlive
         /\ received = <<>>
         /\ Quiescent) =>
          token["rx"] \in ready)

\* The step returns a try_recv call.
TryRecvReturned == last' # last /\ last'.call = "try_recv"

C13_BlockingSend ==
  /\ [](Len(queue) <= bound)
  /\ [][\A p \in Producers :
          /\ (pc[p] = "idle" /\ pc'[p] = "blocked") =>
               (rxAlive /\ Len(queue) = bound /\ queue' = queue)
          /\ (pc[p] = "blocked" /\ pc'[p] = "wake") =>
               /\ Item(p) \in Range(sentOk') \ Range(sentOk)
               /\ Item(p) \in Range(queue') \cup Range(received')
          /\ (pc[p] = "blocked" /\ pc'[p] = "idle") =>
               /\ ~rxAlive
               /\ last'.who = p
               /\ last'.tag = "Disconnected"
               /\ last'.item = Item(p)
               /\ queue' = queue]_vars
  /\ \A p \in Producers : (pc[p] = "blocked") ~> (pc[p] = "idle")

\* C13 witness: on a queue of capacity 0, where every send waits for a
\* receive, both sends of producer 2 waited and returned Ok.
C13_Witness ==
  /\ bound = 0
  /\ last.call = "SyncSender_send"
  /\ last.who = 2
  /\ last.tag = "Ok"
  /\ last.arg = <<2, 2>>
  /\ last.arg \in Range(received)

\* C14 (only the bounded send suspends): no thread ever waits inside try_send
\* or inside the send of lines 67-76, the function the claim reads as the
\* unbounded Sender::send; the only call a thread waits in is the send of
\* lines 88-90; and that first send, called with a live consumer, returns Ok
\* with its item accepted.
C14_OnlyBoundedSendSuspends ==
  /\ [](\A p \in Producers :
          pc[p] = "blocked" => op[p] = "SyncSender_send")
  /\ [][\A p \in Producers :
          (op[p] = "none" /\ op'[p] = "send" /\ rxAlive) =>
            (pc'[p] = "wake" /\ Item(p) \in Range(queue'))]_vars

\* The step makes a wake attempt.
WakeAttempted == last' # last /\ last'.woke

\* C15 (no wake on failure): a send or try_send that returns Disconnected or
\* Full, at once or after waiting, makes no wake attempt and leaves the
\* reactor as it was; every wake attempt is made by a thread whose closure
\* succeeded and has not yet been followed by a wake attempt, and a producer
\* gets into that position only by one accepted item, so wake attempts never
\* outnumber successful operations.
C15_NoWakeOnFailure ==
  [][/\ \A p \in Producers :
          /\ (ProducerReturned(p)
                 /\ last'.tag \in {"Disconnected", "Full"}) =>
               /\ ~last'.woke
               /\ ready' = ready
               /\ owed' = owed
          /\ (pc[p] # "wake" /\ pc'[p] = "wake") =>
               Len(sentOk') = Len(sentOk) + 1
     /\ WakeAttempted =>
          /\ last'.tag = "Ok"
          /\ IF last'.who = 0
             THEN rpc = "wake" /\ rpc' = "idle"
             ELSE pc[last'.who] = "wake" /\ pc'[last'.who] = "idle"]_vars

\* C15 witness: with the consumer registered, a try_send on a full queue
\* returned Full without a wake attempt.
C15_Witness ==
  /\ token["rx"] # NoToken
  /\ last.call = "SyncSender_try_send"
  /\ last.tag = "Full"
  /\ ~last.woke
  /\ ready = {}

C17_DrainLoopDelivery ==
  (regSince /\ sentOk # <<>> /\ received = <<>>) ~>
    (received # <<>> \/ ~regSince \/ ~rxAlive)

\* The step is taken by a producer thread inside send or try_send.
ProducerStep == (pc' # pc \/ op' # op \/ next' # next) /\ rpc' = rpc

\* C18 (producers hold no registration): the wrapper of the producing endpoint
\* never holds a token; every entry of the reactor and all pending readiness
\* belong to the token stored in the consuming endpoint's wrapper; a step of a
\* producer thread changes, of the consumer's side, nothing but the queue; and
\* a step that changes the registration leaves the producers and the queue
\* alone.
C18_ProducersHoldNoRegistration ==
  /\ [](/\ token["tx"] = NoToken
        /\ \A e \in registry : e.token = token["rx"]
        /\ \A t \in ready : t = token["rx"])
  /\ [][ProducerStep =>
          UNCHANGED <<token, registry, ready, consVars, received, rxAlive>>]_vars
  /\ [][(token' # token \/ registry' # registry) =>
          UNCHANGED <<pc, op, next, queue, sentOk, txAlive>>]_vars

\* C18 witness: the consumer is registered, a producer's send returned Ok
\* after its wake attempt, and the producing endpoint's wrapper holds no token.
C18_Witness ==
  /\ token["rx"] # NoToken
  /\ registry # {}
  /\ token["tx"] = NoToken
  /\ last.who \in Producers
  /\ last.tag = "Ok"
  /\ last.woke

\* C19 (send without registration): while the consuming endpoint holds no
\* token, a send or try_send returns what the queue answered to its transfer,
\* its wake attempt changes nothing and no readiness is pending for any token;
\* an item it delivered is buffered until try_recv takes it.
C19_SendWithoutRegistration ==
  /\ [][\A p \in Producers :
          (ProducerReturned(p) /\ token["rx"] = NoToken) =>
            /\ last'.tag = TransferOutcome(p)
            /\ last'.tag \in {"Ok", "Full", "Disconnected"}
            /\ UNCHANGED <<token, registry, ready, queue>>
            /\ (last'.tag = "Ok" /\ rxAlive) =>
                 last'.arg \in Range(queue) \cup Range(received)]_vars
  /\ []((token["rx"] = NoToken /\ token["tx"] = NoToken) => ready = {})
  /\ [][(TryRecvRuns /\ queue # <<>>) =>
          (rio' = Head(queue) /\ queue' = Tail(queue))]_vars

\* C19 witness: no register was ever called, both items of producer 1 were
\* sent with Ok, and try_recv has returned the second of them.
C19_Witness ==
  /\ regHist = "none"
  /\ ready = {}
  /\ next[1] = ItemsPerProducer + 1
  /\ last.call = "try_recv"
  /\ last.tag = "Ok"
  /\ last.item = <<1, 2>>
====
